---- MODULE Spec2Model ----
(***************************************************************************)
(* State-machine model of playback/src/decoder/symphonia_decoder.rs:       *)
(* SymphoniaDecoder { decoder, format, sample_buffer } and its operations  *)
(* new, normalisation_data, ts_to_ms, seek and next_packet.                *)
(*                                                                         *)
(* next_packet is modelled one activation at a time: the recursive call    *)
(* after a demuxer reset-required is the next step of the same call        *)
(* (pc = "retry"), and no other operation runs until the call returns.     *)
(*                                                                         *)
(* The demuxer (format: Box<dyn FormatReader>) and the codec (decoder:     *)
(* Box<dyn Decoder>) are external collaborators.  They are modelled by the *)
(* outcomes the adapter's code distinguishes at each call site; which      *)
(* outcome occurs is a nondeterministic choice.  What is assumed of them:  *)
(*   - the container is a finite sequence of packets with increasing pts,  *)
(*     read through a cursor that only seek moves back; a pull at the end  *)
(*     of the sequence fails with the unexpected-EOF I/O error;            *)
(*   - a successful accurate seek leaves the cursor on a packet whose pts  *)
(*     is at or before the timestamp asked for, and reports that pts as    *)
(*     actual_ts; without a time base a seek to a Time fails;              *)
(*   - the decoder emits frames in the format its codec_params report      *)
(*     (media.conforms; SpecFrames drops this);                            *)
(*   - MetadataLog::pop removes the oldest revision while a newer exists;  *)
(*   - TimeBase::calc_time returns the whole seconds of ts * numer / denom *)
(*     and the f64 nearest to its fractional part, and does not panic;     *)
(*   - SampleBuffer::copy_interleaved_ref asserts that the frames fit the  *)
(*     buffer's capacity, and nothing else.                                *)
(*                                                                         *)
(* The f64 arithmetic of ts_to_ms is modelled digit for digit: a value is  *)
(* m * 2^e with m of at most 53 binary digits, and every operation rounds  *)
(* its exact result to the nearest such value, ties to even.  u32 is       *)
(* scaled down to U32Bits bits so that the saturating cast of ts_to_ms is  *)
(* reached.  The Time that seek hands to the demuxer is kept as an exact   *)
(* rational: only the demuxer reads it.                                    *)
(*                                                                         *)
(* Besides Spec, which runs the four public operations from construction   *)
(* on, single operations are run on a constructed decoder over wider       *)
(* inputs: SpecMeta runs normalisation_data one loop iteration at a time   *)
(* over logs of several revisions, SpecClock applies ts_to_ms to one       *)
(* timestamp after another, SpecCall runs next_packet alone under weak     *)
(* fairness, and SpecFrames runs next_packet with a decoder whose frames   *)
(* may leave the format of the first one.                                  *)
(***************************************************************************)
EXTENDS Integers, Sequences, FiniteSets, TLC

\* ------------------------------------------------------------------ bounds
\* Number of packets in the container.
MaxPackets == 3
\* Largest number of demuxer reset-required signals within one next_packet call.
MaxRetries == 2
\* Largest number of revisions held by the metadata log.
MaxRevisions == 2
\* Width of the scaled-down u32 (position_ms).
U32Bits == 12
\* Largest number of tags in a metadata revision read by normalisation_data.
MaxTags == 2
\* Number of steps of the timestamps given to ts_to_ms: tenths of a second
\* from zero on and milliseconds after the first second, at 48 kHz.
MaxTicks == 10

\* --------------------------------------------------------------- constants
\* crate::SAMPLE_RATE
SAMPLE_RATE == 44100
\* crate::NUM_CHANNELS
NUM_CHANNELS == 2
\* crate::PAGES_PER_MS as the rational numerator / denominator
PAGES_PER_MS == [numer |-> SAMPLE_RATE, denom |-> 1000]

RECURSIVE Pow2(_)
Pow2(n) == IF n = 0 THEN 1 ELSE 2 * Pow2(n - 1)

\* u32::MAX of the scaled u32.
U32_MAX == Pow2(U32Bits) - 1

\* Option<T>: None is the empty sequence, Some(v) the one-element sequence.
None == << >>
Some(v) == << v >>
IsSome(o) == Len(o) = 1
IsNone(o) == Len(o) = 0
Unwrap(o) == o[1]

\* ----------------------------------------------------------------- inputs
\* Sample rates a codec may report (codec_params.sample_rate).
SampleRates == {None, Some(SAMPLE_RATE), Some(48000)}
\* Channel counts a codec may report (codec_params.channels.count()).
ChannelCounts == {None, Some(1), Some(NUM_CHANNELS)}
\* Time bases a codec may report (codec_params.time_base): seconds per unit.
TimeBases == {None, Some([numer |-> 3, denom |-> 2])}

\* What probing the input yields: whether the probe, the default track and
\* the codec construction succeed, and the codec parameters read back.  The
\* decoder made for it conforms: its frames keep the format of codec_params.
MediaInputs ==
    [probe_ok : BOOLEAN, default_track : BOOLEAN, codec_ok : BOOLEAN,
     sample_rate : SampleRates, channels : ChannelCounts, time_base : TimeBases,
     conforms : {TRUE}]

\* The container's packets, built from their durations: the first packet has
\* pts 0 and each next one starts where the previous ends.
RECURSIVE PtsOf(_, _)
PtsOf(durs, i) == IF i = 1 THEN 0 ELSE PtsOf(durs, i - 1) + durs[i - 1]

StreamOf(durs) == [i \in 1..Len(durs) |-> [pts |-> PtsOf(durs, i), dur |-> durs[i]]]

\* Packet durations, in time-base units.
Durations == {1, 2}

\* The containers: MaxPackets packets whose durations alternate between two
\* values (equal ones give a constant packet size).
Streams ==
    {StreamOf([i \in 1..MaxPackets |-> IF i % 2 = 1 THEN a ELSE b]) : a, b \in Durations}

\* Metadata tags: a standardized key (or none) and a value.
Float(v) == [type |-> "Float", v |-> v]
String(v) == [type |-> "String", v |-> v]
Tag(k, v) == [std_key |-> k, value |-> v]

\* The revisions a container may carry.
Revisions ==
    { << >>,
      << Tag(Some("ReplayGainTrackGain"), Float(3)),
         Tag(Some("ReplayGainTrackPeak"), Float(1)) >>,
      << Tag(Some("ReplayGainAlbumGain"), String(5)),
         Tag(None, Float(7)) >> }

\* The metadata log after probing: empty, or holding one revision.
MetadataLogs == {<< >>} \cup {<< r >> : r \in Revisions}

\* Keys a tag may carry: the ReplayGain keys, another standardized key, none.
TagKeys ==
    {Some("ReplayGainAlbumGain"), Some("ReplayGainAlbumPeak"),
     Some("ReplayGainTrackGain"), Some("ReplayGainTrackPeak"),
     Some("TrackTitle"), None}

\* The tags a revision may be made of.
Tags ==
    {Tag(k, v) : k \in TagKeys, v \in {Float(3), String(5)}}
    \cup {Tag(Some("ReplayGainTrackGain"), Float(7))}

\* Revisions of up to MaxTags tags.
TaggedRevisions == UNION {[1..n -> Tags] : n \in 0..MaxTags}

\* Older revisions still in a log when normalisation_data is called.
OlderRevisions ==
    {<< >>} \cup {<< a >> : a \in Revisions} \cup {<< a, b >> : a, b \in Revisions}

\* Metadata logs: empty, or a newest revision after the older ones.
TaggedLogs ==
    {<< >>} \cup {older \o << r >> : older \in OlderRevisions, r \in TaggedRevisions}

\* Time bases ts_to_ms is applied with: none, 1/48000 s and 3/2 s per unit.
ClockTimeBases == {None, Some([numer |-> 1, denom |-> 48000]), Some([numer |-> 3, denom |-> 2])}

\* The largest timestamp converted under a time base: the u64::MAX of the
\* model, whose product with 1000 x numer (with PAGES_PER_MS when there is no
\* time base) the model's integers still hold.
TS_MAX(time_base) ==
    Pow2(30) \div (IF IsSome(time_base) THEN 1000 * Unwrap(time_base).numer
                   ELSE PAGES_PER_MS.numer)

\* The timestamp at which the milliseconds reach u32::MAX under a time base.
SaturationTs(time_base) ==
    IF IsSome(time_base)
    THEN (U32_MAX * Unwrap(time_base).denom) \div (1000 * Unwrap(time_base).numer)
    ELSE (U32_MAX * PAGES_PER_MS.denom) \div PAGES_PER_MS.numer

\* The timestamps ts_to_ms is applied to: the first ones, those around every
\* tenth of a second and around every millisecond after the first second at
\* 48 kHz, those around the saturation of the result, and the largest ones.
Timestamps(time_base) ==
    {ts \in (0..3) \cup {k * 4800 + j : k \in 1..MaxTicks, j \in {-1, 0, 1}}
               \cup {48000 + k * 48 + j : k \in 1..MaxTicks, j \in {-1, 0, 1}}
               \cup {SaturationTs(time_base) + j : j \in -1..2} :
       ts <= TS_MAX(time_base)}
    \cup {TS_MAX(time_base) - 1, TS_MAX(time_base)}

\* Positions the player asks seek for.
SeekTargets == {0, 3000}

\* ------------------------------------------------------------------ state
VARIABLES
    status,         \* "unbuilt" | "ready" | "failed" | "panicked"
    media,          \* what probing the input yields (see MediaInputs)
    stream,         \* the container's packets
    cursor,         \* index of the next packet the demuxer will deliver
    metadata,       \* format.metadata(): the revision log, oldest first
    sample_buffer,  \* SymphoniaDecoder.sample_buffer
    pc,             \* "idle" | "retry" (next_packet has recursed) | "drain" (in the loop of normalisation_data)
    trace,          \* collaborator calls made by the current / last call
    result,         \* what the last completed call returned
    ended,          \* Ok(None) results since the last seek, counted up to 2
    lastPos,        \* position_ms of the last Some since the last seek, or -1
    prevPos,        \* position_ms of the Some before that one, or -1
    seekedTo,       \* what the last seek returned, until the second Some after it, or -1
    prev            \* the result before `result`; kept where single functions are applied

vars == << status, media, stream, cursor, metadata, sample_buffer, pc, trace,
           result, ended, lastPos, prevPos, seekedTo, prev >>

\* The shape of a call's result as the caller sees it.
Result(op, kind, err, origin, arg) ==
    [op |-> op, kind |-> kind, err |-> err, origin |-> origin, arg |-> arg,
     position_ms |-> -1, pcm_len |-> -1, frames |-> -1, packet |-> 0, data |-> << >>,
     discarded |-> 0, spec |-> [rate |-> 0, channels |-> 0]]

NoResult == Result("none", "none", "", "", -1)

\* The state with the input probed: before new (st = "unbuilt") or right
\* after a new that returned Ok (st = "ready").
Start(st, inputs, streams, logs) ==
    /\ status = st
    /\ media \in inputs
    /\ stream \in streams
    /\ cursor = 1
    /\ metadata \in logs
    /\ sample_buffer = None
    /\ pc = "idle"
    /\ trace = << >>
    /\ result = IF st = "ready" THEN Result("new", "Ok", "", "", -1) ELSE NoResult
    /\ ended = 0
    /\ lastPos = -1
    /\ prevPos = -1
    /\ seekedTo = -1
    /\ prev = NoResult

Init == Start("unbuilt", MediaInputs, Streams, MetadataLogs)

\* ------------------------------------------------------ SymphoniaDecoder::new
\* new without the sample-rate comparison (lines 73-78 left out).
NewError_NoRateCheck(m) ==
    IF ~m.probe_ok THEN "ProbeFailure"
    ELSE IF ~m.default_track THEN "Could not retrieve default track"
    ELSE IF ~m.codec_ok THEN "CodecInitFailure"
    ELSE IF IsNone(m.sample_rate) THEN "Could not retrieve sample rate"
    ELSE IF IsNone(m.channels) THEN "Could not retrieve channel configuration"
    ELSE IF Unwrap(m.channels) # NUM_CHANNELS THEN "Unsupported number of channels"
    ELSE ""

\* new without the channel-count comparison (lines 80-85 left out).
NewError_NoChannelCheck(m) ==
    IF ~m.probe_ok THEN "ProbeFailure"
    ELSE IF ~m.default_track THEN "Could not retrieve default track"
    ELSE IF ~m.codec_ok THEN "CodecInitFailure"
    ELSE IF IsNone(m.sample_rate) THEN "Could not retrieve sample rate"
    ELSE IF IsNone(m.channels) THEN "Could not retrieve channel configuration"
    ELSE IF Unwrap(m.sample_rate) # SAMPLE_RATE THEN "Unsupported sample rate"
    ELSE ""

\* The error new returns for the probed input, or "" when it returns Ok.
\* The checks are made in the order of the code.
NewError(m) ==
    IF ~m.probe_ok THEN "ProbeFailure"
    ELSE IF ~m.default_track THEN "Could not retrieve default track"
    ELSE IF ~m.codec_ok THEN "CodecInitFailure"
    ELSE IF IsNone(m.sample_rate) THEN "Could not retrieve sample rate"
    ELSE IF IsNone(m.channels) THEN "Could not retrieve channel configuration"
    ELSE IF Unwrap(m.sample_rate) # SAMPLE_RATE THEN "Unsupported sample rate"
    ELSE IF Unwrap(m.channels) # NUM_CHANNELS THEN "Unsupported number of channels"
    ELSE ""

\* The value formatted into the error message ({} of format!), or -1.
NewErrorArg(m) ==
    IF NewError(m) = "Unsupported sample rate" THEN Unwrap(m.sample_rate)
    ELSE IF NewError(m) = "Unsupported number of channels" THEN Unwrap(m.channels)
    ELSE -1

\* The inputs new accepts.
AcceptedInputs == {m \in MediaInputs : NewError(m) = ""}

new ==
    /\ status = "unbuilt"
    /\ IF NewError(media) = ""
       THEN /\ status' = "ready"
            /\ result' = Result("new", "Ok", "", "", -1)
       ELSE /\ status' = "failed"
            /\ result' = Result("new", "Err", NewError(media), "new", NewErrorArg(media))
    /\ sample_buffer' = None
    /\ UNCHANGED << media, stream, cursor, metadata, pc, trace, ended, lastPos, prevPos, seekedTo, prev >>

\* ------------------------------------------------------------------- f64
\* Natural numbers wider than the model's integers: their digits in base
\* 2^LimbBits, the least significant first; zero is the empty sequence.
LimbBits == 15
Limb == Pow2(LimbBits)

RECURSIVE BigOf(_)
BigOf(n) == IF n = 0 THEN << >> ELSE << n % Limb >> \o BigOf(n \div Limb)

RECURSIVE BigNorm(_)
BigNorm(a) ==
    IF a = << >> THEN a
    ELSE IF a[Len(a)] = 0 THEN BigNorm(SubSeq(a, 1, Len(a) - 1)) ELSE a

\* a * k + carry, for a digit-sized k.
RECURSIVE BigMulSmall(_, _, _)
BigMulSmall(a, k, carry) ==
    IF a = << >> THEN BigOf(carry)
    ELSE LET t == a[1] * k + carry
         IN  << t % Limb >> \o BigMulSmall(Tail(a), k, t \div Limb)

\* a + b + carry.
RECURSIVE BigAdd(_, _, _)
BigAdd(a, b, carry) ==
    IF a = << >> /\ b = << >> THEN BigOf(carry)
    ELSE LET x == IF a = << >> THEN 0 ELSE a[1]
             y == IF b = << >> THEN 0 ELSE b[1]
             t == x + y + carry
         IN  << t % Limb >> \o BigAdd(IF a = << >> THEN a ELSE Tail(a),
                                      IF b = << >> THEN b ELSE Tail(b), t \div Limb)

\* Quotient and remainder of the digits a[1..i] above the remainder r by d < 2 * Limb.
RECURSIVE BigDivSmall(_, _, _, _)
BigDivSmall(a, i, d, r) ==
    IF i = 0 THEN [q |-> << >>, r |-> r]
    ELSE LET t == r * Limb + a[i]
             rest == BigDivSmall(a, i - 1, d, t % d)
         IN  [q |-> rest.q \o << t \div d >>, r |-> rest.r]

\* a * 2^n and the whole part of a / 2^n.
BigShl(a, n) ==
    IF a = << >> THEN a
    ELSE [i \in 1..(n \div LimbBits) |-> 0] \o BigMulSmall(a, Pow2(n % LimbBits), 0)

BigShr(a, n) ==
    IF n \div LimbBits >= Len(a) THEN << >>
    ELSE LET high == SubSeq(a, n \div LimbBits + 1, Len(a))
         IN  BigNorm(BigDivSmall(high, Len(high), Pow2(n % LimbBits), 0).q)

RECURSIVE BitLenOf(_)
BitLenOf(n) == IF n = 0 THEN 0 ELSE 1 + BitLenOf(n \div 2)

\* Number of binary digits of a.
BigBitLen(a) == IF a = << >> THEN 0 ELSE LimbBits * (Len(a) - 1) + BitLenOf(a[Len(a)])

BigOdd(a) == a # << >> /\ a[1] % 2 = 1

RECURSIVE BigMul(_, _)
BigMul(a, b) ==
    IF a = << >> \/ b = << >> THEN << >>
    ELSE BigNorm(BigAdd(BigMulSmall(a, b[1], 0), << 0 >> \o BigMul(a, Tail(b)), 0))

\* The integer a, when the model's integers hold it.
RECURSIVE BigToInt(_)
BigToInt(a) == IF a = << >> THEN 0 ELSE a[1] + Limb * BigToInt(Tail(a))

\* f64::MANTISSA_DIGITS: a non-negative finite f64 is m * 2^e with m of at
\* most this many binary digits.
F64_MANTISSA_DIGITS == 53

\* The f64 nearest to n * 2^e, ties to the even significand; inexact tells
\* that the number rounded is a little above n * 2^e (the division that gave n
\* left a remainder).
F64Round(n, e, inexact) ==
    LET k == BigBitLen(n) - F64_MANTISSA_DIGITS
    IN  IF k <= 0 THEN [m |-> n, e |-> e]
        ELSE LET q1 == BigShr(n, k - 1)
                 q == BigShr(q1, 1)
                 above == inexact \/ BigShl(q1, k - 1) # n
                 up == BigOdd(q1) /\ (above \/ BigOdd(q))
                 m == IF up THEN BigAdd(q, << 1 >>, 0) ELSE q
             IN  IF BigBitLen(m) > F64_MANTISSA_DIGITS
                 THEN [m |-> BigShr(m, 1), e |-> e + k + 1]
                 ELSE [m |-> m, e |-> e + k]

\* `n as f64` for an unsigned integer n.
F64Of(n) == F64Round(BigOf(n), 0, FALSE)

\* Binary places a quotient is carried to before it is rounded: the
\* significand, a rounding digit, and the leading zeros of a quotient of
\* integers below 2 * Limb.
DivBits == F64_MANTISSA_DIGITS + LimbBits + 2

\* n as f64 / d as f64 for unsigned integers n and d, 0 < d < 2 * Limb.
F64Div(n, d) ==
    LET a == BigShl(BigOf(n), DivBits)
        dv == BigDivSmall(a, Len(a), d, 0)
    IN  F64Round(BigNorm(dv.q), -DivBits, dv.r # 0)

\* a + b and a * b in f64.
F64Add(a, b) ==
    LET e == IF a.e < b.e THEN a.e ELSE b.e
    IN  F64Round(BigAdd(BigShl(a.m, a.e - e), BigShl(b.m, b.e - e), 0), e, FALSE)

F64Mul(a, b) == F64Round(BigMul(a.m, b.m), a.e + b.e, FALSE)

\* The whole part of a non-negative f64.
F64Trunc(x) == IF x.e >= 0 THEN BigShl(x.m, x.e) ELSE BigShr(x.m, -x.e)

\* ------------------------------------------------- SymphoniaDecoder::ts_to_ms
\* TimeBase::calc_time: the whole seconds of ts * numer / denom and the f64
\* nearest to its fractional part.
calc_time(time_base, ts) ==
    [seconds |-> (ts * time_base.numer) \div time_base.denom,
     frac |-> F64Div((ts * time_base.numer) % time_base.denom, time_base.denom)]

\* The f64 seeked_to_ms of ts_to_ms.
seeked_to_ms(time_base, ts) ==
    IF IsSome(time_base)
    THEN LET time == calc_time(Unwrap(time_base), ts)
         IN  F64Mul(F64Add(F64Of(time.seconds), time.frac), F64Of(1000))
    ELSE F64Mul(F64Of(ts), F64Div(PAGES_PER_MS.numer, PAGES_PER_MS.denom))

\* A cast that wraps modulo 2^32 instead of saturating.
AsU32_Wrapping(x) ==
    LET t == F64Trunc(x)
    IN  (IF t = << >> THEN 0 ELSE t[1]) % (U32_MAX + 1)

\* `x as u32` for a non-negative f64 x: truncates toward zero and saturates
\* at u32::MAX.
AsU32(x) ==
    LET t == F64Trunc(x)
    IN  IF BigBitLen(t) > U32Bits THEN U32_MAX ELSE BigToInt(t)

\* ts_to_ms taking the timestamp as a u32 before converting it.
ts_to_ms_U32Timestamp(ts) == AsU32(seeked_to_ms(media.time_base, ts % (U32_MAX + 1)))

\* The timestamps converted: those ts_to_ms is applied to alone, and those of
\* the containers' packets and of their durations.
ConvertedTimestamps ==
    UNION {Timestamps(time_base) : time_base \in ClockTimeBases}
    \cup (0..(MaxPackets * (CHOOSE d \in Durations : \A x \in Durations : x <= d)))

\* The conversion as a function of the time base and the timestamp, so that
\* each value is computed once.
Converted ==
    [time_base \in TimeBases \cup ClockTimeBases, ts \in ConvertedTimestamps |->
       AsU32(seeked_to_ms(time_base, ts))]

ts_to_ms(ts) ==
    IF ts \in ConvertedTimestamps
    THEN Converted[media.time_base, ts]
    ELSE AsU32(seeked_to_ms(media.time_base, ts))

\* ts_to_ms applied to a timestamp, as seek and next_packet apply it.
ts_to_ms_call ==
    /\ status = "ready"
    /\ pc = "idle"
    /\ \E ts \in Timestamps(media.time_base) :
         result' = [Result("ts_to_ms", "Ok", "", "", ts) EXCEPT !.position_ms = ts_to_ms(ts)]
    /\ prev' = result
    /\ UNCHANGED << status, media, stream, cursor, metadata, sample_buffer, pc, trace,
                    ended, lastPos, prevPos, seekedTo >>

\* ------------------------------------------------------ the collaborators
\* Number of demuxer reset-required signals in a call's trace.
Retries(t) == Cardinality({i \in 1..Len(t) : t[i] = "format.next_packet:ResetRequired"})

\* Outcomes of format.next_packet() that the adapter distinguishes.  At the
\* end of the container the pull fails with the unexpected-EOF I/O error.
DemuxOutcomes(t) ==
    IF cursor > Len(stream)
    THEN {"IoError:UnexpectedEof"}
    ELSE {"Packet", "IoError:Other", "DecodeError"}
         \cup (IF Retries(t) < MaxRetries THEN {"ResetRequired"} ELSE {})

\* Revisions the demuxer may append to the metadata log while it reads a packet.
MetadataPushes ==
    {None} \cup (IF Len(metadata) < MaxRevisions THEN {Some(r) : r \in Revisions} ELSE {})

\* Numbers of frames the decoder produces for one packet (decoded.frames()).
FrameCounts == {1, 2}

\* The capacity of the decoder's output buffer (decoded.capacity()): the
\* largest frame count.
Capacity == CHOOSE c \in FrameCounts : \A f \in FrameCounts : f <= c

\* The specs (decoded.spec()) of a decoder's frames: the format the codec
\* reported at construction, or, from a decoder that does not conform, any
\* rate and channel count once its first frame has been decoded.
FrameSpecs ==
    IF media.conforms \/ IsNone(sample_buffer)
    THEN {[rate |-> Unwrap(media.sample_rate), channels |-> Unwrap(media.channels)]}
    ELSE {[rate |-> r, channels |-> c] : r \in {SAMPLE_RATE, 48000}, c \in {1, NUM_CHANNELS}}

\* The capacities of a decoder's frames: always the largest frame count, or,
\* from a decoder that does not conform, one that differs between frames.
FrameCapacities == IF media.conforms THEN {Capacity} ELSE FrameCounts

\* Outcomes of decoder.decode(&packet): a decoded frame or an error.
DecodeOutcomes ==
    {[ok |-> TRUE, err |-> "", frames |-> fc[1], capacity |-> fc[2], spec |-> sp]
        : fc \in {x \in FrameCounts \X FrameCapacities : x[1] <= x[2]}, sp \in FrameSpecs}
    \cup
    {[ok |-> FALSE, err |-> e, frames |-> 0, capacity |-> 0,
      spec |-> [rate |-> 0, channels |-> 0]]
        : e \in {"DecodeError", "IoError", "ResetRequired"}}

\* FormatReader::seek works in timestamps: the Time of the request in units
\* of the time base.
calc_timestamp(time_base, time) ==
    ((time.seconds * time.frac.d + time.frac.n) * time_base.denom)
        \div (time.frac.d * time_base.numer)

\* Outcomes of format.seek(SeekMode::Accurate, SeekTo::Time { time, .. }): an
\* error, or SeekedTo { required_ts, actual_ts } with the reader positioned
\* on a packet at or before the required timestamp.
SeekOutcomes(time) ==
    {[ok |-> FALSE, required_ts |-> 0, actual_ts |-> 0, index |-> 0]}
    \cup
    (IF IsSome(media.time_base)
     THEN LET required == calc_timestamp(Unwrap(media.time_base), time)
          IN  {[ok |-> TRUE, required_ts |-> required, actual_ts |-> stream[i].pts,
                index |-> i] : i \in {j \in 1..Len(stream) : stream[j].pts <= required}}
     ELSE {})

\* ----------------------------------------------------- AudioDecoder::seek
\* seek converting the timestamp asked for instead of the one reached.
SeekResult_RequiredTs(seeked_to_ts) == ts_to_ms(seeked_to_ts.required_ts)

\* The value seek returns for the demuxer's SeekedTo.
SeekResult(seeked_to_ts) == ts_to_ms(seeked_to_ts.actual_ts)

\* seek resetting the decoder whatever the demuxer's seek returned.
SeekFailed_Resets(position_ms) ==
    /\ trace' = << "format.seek:Err", "decoder.reset" >>
    /\ result' = Result("seek", "Err", "SeekError", "format", position_ms)
    /\ seekedTo' = -1
    /\ UNCHANGED << cursor, sample_buffer >>

\* format.seek(..)? failed: the demuxer's error is returned.
SeekFailed(position_ms) ==
    /\ trace' = << "format.seek:Err" >>
    /\ result' = Result("seek", "Err", "SeekError", "format", position_ms)
    /\ seekedTo' = -1
    /\ UNCHANGED << cursor, sample_buffer >>

\* seek dropping the sample buffer along with the decoder's state.
SeekSucceeded_DiscardsBuffer(position_ms, seeked_to_ts) ==
    /\ cursor' = seeked_to_ts.index
    /\ trace' = << "format.seek:Ok", "decoder.reset" >>
    /\ result' = [Result("seek", "Ok", "", "", position_ms)
                     EXCEPT !.position_ms = ts_to_ms(seeked_to_ts.actual_ts)]
    /\ seekedTo' = ts_to_ms(seeked_to_ts.actual_ts)
    /\ sample_buffer' = None

\* seek pulling the packet it landed on, to return that packet's timestamp.
SeekSucceeded_ReadsAhead(position_ms, seeked_to_ts) ==
    /\ cursor' = seeked_to_ts.index + 1
    /\ trace' = << "format.seek:Ok", "decoder.reset" >>
    /\ result' = [Result("seek", "Ok", "", "", position_ms)
                     EXCEPT !.position_ms = ts_to_ms(stream[seeked_to_ts.index].pts)]
    /\ seekedTo' = ts_to_ms(stream[seeked_to_ts.index].pts)
    /\ sample_buffer' = sample_buffer

\* format.seek(..)? succeeded: reset the decoder and convert the timestamp
\* the reader is now at.
SeekSucceeded(position_ms, seeked_to_ts) ==
    /\ cursor' = seeked_to_ts.index
    /\ trace' = << "format.seek:Ok", "decoder.reset" >>
    /\ result' = [Result("seek", "Ok", "", "", position_ms)
                     EXCEPT !.position_ms = SeekResult(seeked_to_ts)]
    /\ seekedTo' = SeekResult(seeked_to_ts)
    /\ sample_buffer' = sample_buffer

seek(position_ms) ==
    /\ status = "ready"
    /\ pc = "idle"
    /\ LET seconds == position_ms \div 1000
           frac == [n |-> position_ms % 1000, d |-> 1000]
           time == [seconds |-> seconds, frac |-> frac]
       IN  \E seeked_to_ts \in SeekOutcomes(time) :
             IF seeked_to_ts.ok
             THEN SeekSucceeded(position_ms, seeked_to_ts)
             ELSE SeekFailed(position_ms)
    /\ ended' = 0
    /\ lastPos' = -1
    /\ prevPos' = -1
    /\ UNCHANGED << status, media, stream, metadata, pc, prev >>

\* ----------------------------------------------- AudioDecoder::next_packet
\* SampleBuffer::new(duration, spec) on the first decoded frame.
NewSampleBuffer(decoded) == Some([capacity |-> decoded.capacity, spec |-> decoded.spec])

\* The Ok(decoded) arm: fill the sample buffer if unset, copy the frame into
\* it (copy_interleaved_ref asserts that the buffer holds the frame's
\* samples) and return the written samples.
DecodedOk(t, position_ms, decoded) ==
    LET buffer == IF IsNone(sample_buffer) THEN NewSampleBuffer(decoded) ELSE sample_buffer
        sb == Unwrap(buffer)
        n_samples == decoded.frames * decoded.spec.channels
    IN  /\ sample_buffer' = buffer
        /\ trace' = Append(t, "decoder.decode:Ok")
        /\ pc' = "idle"
        /\ IF sb.capacity * sb.spec.channels >= n_samples
           THEN /\ status' = status
                /\ result' = [Result("next_packet", "Some", "", "", -1)
                                 EXCEPT !.position_ms = position_ms, !.pcm_len = n_samples,
                                        !.frames = decoded.frames, !.packet = cursor,
                                        !.spec = decoded.spec]
                /\ lastPos' = position_ms
                /\ prevPos' = lastPos
                /\ seekedTo' = IF lastPos >= 0 THEN -1 ELSE seekedTo
                /\ ended' = ended
           ELSE /\ status' = "panicked"
                /\ result' = Result("next_packet", "Panic", "assertion failed", "sample_buffer", -1)
                /\ UNCHANGED << lastPos, prevPos, seekedTo, ended >>

\* The decode's Err arm handling reset-required like the demuxer's: reset
\* and call next_packet again.
DecodedErr_ResetAndRetry(t, decoded) ==
    /\ trace' = IF decoded.err = "ResetRequired" /\ Retries(t) < MaxRetries
                THEN t \o << "decoder.decode:" \o decoded.err, "decoder.reset" >>
                ELSE Append(t, "decoder.decode:" \o decoded.err)
    /\ pc' = IF decoded.err = "ResetRequired" /\ Retries(t) < MaxRetries
             THEN "retry" ELSE "idle"
    /\ result' = IF decoded.err = "ResetRequired" /\ Retries(t) < MaxRetries
                 THEN result
                 ELSE Result("next_packet", "Err", decoded.err, "decoder", -1)
    /\ UNCHANGED << status, sample_buffer, lastPos, prevPos, seekedTo, ended >>

\* The decode's Err arm giving the packet to the decoder a second time before
\* it returns the error.
DecodedErr_DecodeAgain(t, decoded) ==
    /\ trace' = t \o << "decoder.decode:" \o decoded.err, "decoder.decode:" \o decoded.err >>
    /\ pc' = "idle"
    /\ result' = Result("next_packet", "Err", decoded.err, "decoder", -1)
    /\ UNCHANGED << status, sample_buffer, lastPos, prevPos, seekedTo, ended >>

\* The Err(err) arm of the decode: the error goes to the caller.
DecodedErr(t, decoded) ==
    /\ trace' = Append(t, "decoder.decode:" \o decoded.err)
    /\ pc' = "idle"
    /\ result' = Result("next_packet", "Err", decoded.err, "decoder", -1)
    /\ UNCHANGED << status, sample_buffer, lastPos, prevPos, seekedTo, ended >>

\* The demuxer delivered a packet: convert its timestamp and decode it.
GotPacket(t) ==
    LET packet == stream[cursor]
        position_ms == ts_to_ms(packet.pts)
    IN  /\ cursor' = cursor + 1
        /\ \E push \in MetadataPushes :
             metadata' = IF IsSome(push) THEN Append(metadata, Unwrap(push)) ELSE metadata
        /\ \E decoded \in DecodeOutcomes :
             IF decoded.ok
             THEN DecodedOk(Append(t, "format.next_packet:Packet"), position_ms, decoded)
             ELSE DecodedErr(Append(t, "format.next_packet:Packet"), decoded)

\* The I/O arm without the test of err.kind(): every I/O error is an error.
DemuxEof_AsError(t) ==
    /\ trace' = Append(t, "format.next_packet:IoError:UnexpectedEof")
    /\ pc' = "idle"
    /\ result' = Result("next_packet", "Err", "IoError:UnexpectedEof", "format", -1)
    /\ UNCHANGED << status, cursor, metadata, sample_buffer, lastPos, prevPos, seekedTo, ended >>

\* The I/O arm reporting the end of the stream once, and an error to a
\* caller that asks again.
DemuxEof_ErrorAfterEnd(t) ==
    /\ trace' = Append(t, "format.next_packet:IoError:UnexpectedEof")
    /\ pc' = "idle"
    /\ result' = IF ended = 0
                 THEN Result("next_packet", "None", "", "", -1)
                 ELSE Result("next_packet", "Err", "IoError:UnexpectedEof", "format", -1)
    /\ ended' = IF ended < 2 THEN ended + 1 ELSE ended
    /\ UNCHANGED << status, cursor, metadata, sample_buffer, lastPos, prevPos, seekedTo >>

\* Err(Error::IoError(err)) with err.kind() == UnexpectedEof: Ok(None).
DemuxEof(t) ==
    /\ trace' = Append(t, "format.next_packet:IoError:UnexpectedEof")
    /\ pc' = "idle"
    /\ result' = Result("next_packet", "None", "", "", -1)
    /\ ended' = IF ended < 2 THEN ended + 1 ELSE ended
    /\ UNCHANGED << status, cursor, metadata, sample_buffer, lastPos, prevPos, seekedTo >>

\* The demuxer's reset-required arm calling next_packet again without
\* decoder.reset().
DemuxResetRequired_NoReset(t) ==
    /\ trace' = Append(t, "format.next_packet:ResetRequired")
    /\ pc' = "retry"
    /\ UNCHANGED << status, cursor, metadata, sample_buffer, result, lastPos, prevPos, seekedTo, ended >>

\* Err(Error::ResetRequired) from the demuxer: reset the decoder and call
\* next_packet again.
DemuxResetRequired(t) ==
    /\ trace' = t \o << "format.next_packet:ResetRequired", "decoder.reset" >>
    /\ pc' = "retry"
    /\ UNCHANGED << status, cursor, metadata, sample_buffer, result, lastPos, prevPos, seekedTo, ended >>

\* Every demuxer error handled like reset-required: reset the decoder and
\* call next_packet again.
DemuxErr_ResetAndRetry(t, r) ==
    /\ trace' = << "format.next_packet:" \o r, "decoder.reset" >>
    /\ pc' = "retry"
    /\ UNCHANGED << status, cursor, metadata, sample_buffer, result, lastPos, prevPos, seekedTo, ended >>

\* Every demuxer error but the end of the stream answered by decoding
\* nothing and pulling the next packet within the same call.
DemuxErr_SkipAndPull(t, r) ==
    /\ trace' = Append(t, "format.next_packet:" \o r)
    /\ pc' = "retry"
    /\ UNCHANGED << status, cursor, metadata, sample_buffer, result, lastPos, prevPos, seekedTo, ended >>

\* Any other demuxer error: returned to the caller.
DemuxErr(t, r) ==
    /\ trace' = Append(t, "format.next_packet:" \o r)
    /\ pc' = "idle"
    /\ result' = Result("next_packet", "Err", r, "format", -1)
    /\ UNCHANGED << status, cursor, metadata, sample_buffer, lastPos, prevPos, seekedTo, ended >>

\* One activation of next_packet: a call by the player (pc = "idle") or the
\* recursive call after a demuxer reset-required (pc = "retry").
next_packet ==
    /\ status = "ready"
    /\ LET t == IF pc = "idle" THEN << >> ELSE trace
       IN  \E r \in DemuxOutcomes(t) :
             CASE r = "Packet" -> GotPacket(t)
               [] r = "IoError:UnexpectedEof" -> DemuxEof(t)
               [] r = "ResetRequired" -> DemuxResetRequired(t)
               [] OTHER -> DemuxErr(t, r)
    /\ UNCHANGED << media, stream, prev >>

\* --------------------------------------- SymphoniaDecoder::normalisation_data
\* MetadataLog::pop: discards the oldest revision while a newer one exists.
pop(log) ==
    IF Len(log) > 1
    THEN [ret |-> Some(Head(log)), log |-> Tail(log)]
    ELSE [ret |-> None, log |-> log]

\* The loop of normalisation_data: pop until pop returns None.
RECURSIVE Drain(_)
Drain(log) == IF IsSome(pop(log).ret) THEN Drain(pop(log).log) ELSE log

\* MetadataLog::current: the oldest revision still in the log.
current(log) == IF Len(log) > 0 THEN Some(Head(log)) ELSE None

\* NormalisationData::default()
DefaultNormalisationData ==
    [track_gain_db |-> 0, track_peak |-> 0, album_gain_db |-> 0, album_peak |-> 0]

\* The tag loop without the test for a floating-point value.
ApplyTag_AnyValue(data, tag) ==
    IF IsSome(tag.std_key)
    THEN CASE Unwrap(tag.std_key) = "ReplayGainAlbumGain" ->
                [data EXCEPT !.album_gain_db = tag.value.v]
           [] Unwrap(tag.std_key) = "ReplayGainAlbumPeak" ->
                [data EXCEPT !.album_peak = tag.value.v]
           [] Unwrap(tag.std_key) = "ReplayGainTrackGain" ->
                [data EXCEPT !.track_gain_db = tag.value.v]
           [] Unwrap(tag.std_key) = "ReplayGainTrackPeak" ->
                [data EXCEPT !.track_peak = tag.value.v]
           [] OTHER -> data
    ELSE data

\* One iteration of the tag loop.
ApplyTag(data, tag) ==
    IF tag.value.type = "Float" /\ IsSome(tag.std_key)
    THEN CASE Unwrap(tag.std_key) = "ReplayGainAlbumGain" ->
                [data EXCEPT !.album_gain_db = tag.value.v]
           [] Unwrap(tag.std_key) = "ReplayGainAlbumPeak" ->
                [data EXCEPT !.album_peak = tag.value.v]
           [] Unwrap(tag.std_key) = "ReplayGainTrackGain" ->
                [data EXCEPT !.track_gain_db = tag.value.v]
           [] Unwrap(tag.std_key) = "ReplayGainTrackPeak" ->
                [data EXCEPT !.track_peak = tag.value.v]
           [] OTHER -> data
    ELSE data

\* The while loop over tags[0 .. i).
RECURSIVE ApplyTags(_, _)
ApplyTags(tags, i) ==
    IF i = 0 THEN DefaultNormalisationData ELSE ApplyTag(ApplyTags(tags, i - 1), tags[i])

\* The value normalisation_data returns for the drained log.
NormalisationOf(log) ==
    IF IsNone(current(log)) THEN None
    ELSE LET tags == Unwrap(current(log))
         IN  IF Len(tags) = 0 THEN None ELSE Some(ApplyTags(tags, Len(tags)))

normalisation_data ==
    /\ status = "ready"
    /\ pc = "idle"
    /\ metadata' = Drain(metadata)
    /\ trace' = << >>
    /\ LET data == NormalisationOf(Drain(metadata))
       IN  result' = [Result("normalisation_data",
                             IF IsSome(data) THEN "Some" ELSE "None", "", "", -1)
                         EXCEPT !.data = data,
                                !.discarded = Len(metadata) - Len(Drain(metadata))]
    /\ UNCHANGED << status, media, stream, cursor, sample_buffer, pc, ended, lastPos, prevPos, seekedTo, prev >>

\* normalisation_data one loop iteration at a time.  The call begins with
\* `let mut metadata = self.format.metadata()`.
normalisation_data_begin ==
    /\ status = "ready"
    /\ pc = "idle"
    /\ pc' = "drain"
    /\ trace' = << "format.metadata" >>
    /\ UNCHANGED << status, media, stream, cursor, metadata, sample_buffer, result,
                    ended, lastPos, prevPos, seekedTo, prev >>

\* The loop body without `continue`: one pop, then the current revision is
\* read whatever pop returned.
normalisation_data_iterate_PopOnce ==
    /\ status = "ready"
    /\ pc = "drain"
    /\ LET popped == pop(metadata)
           data == NormalisationOf(popped.log)
       IN  /\ metadata' = popped.log
           /\ trace' = trace \o << IF IsSome(popped.ret) THEN "metadata.pop:Some"
                                    ELSE "metadata.pop:None", "metadata.current" >>
           /\ pc' = "idle"
           /\ result' = [Result("normalisation_data",
                                IF IsSome(data) THEN "Some" ELSE "None", "", "", -1)
                            EXCEPT !.data = data,
                                   !.discarded = IF IsSome(popped.ret) THEN 1 ELSE 0]
           /\ prev' = result
    /\ UNCHANGED << status, media, stream, cursor, sample_buffer, ended, lastPos, prevPos, seekedTo >>

\* The loop going on for as long as the log has a current revision, instead
\* of for as long as pop returns one.
normalisation_data_iterate_WhileCurrent ==
    /\ status = "ready"
    /\ pc = "drain"
    /\ LET popped == pop(metadata)
           pops == Cardinality({i \in 1..Len(trace) : trace[i] = "metadata.pop:Some"})
           data == NormalisationOf(popped.log)
       IN  /\ metadata' = popped.log
           /\ IF IsSome(current(metadata))
              THEN /\ trace' = IF IsSome(popped.ret)
                               THEN Append(trace, "metadata.pop:Some") ELSE trace
                   /\ pc' = "drain"
                   /\ UNCHANGED << result, prev >>
              ELSE /\ trace' = trace \o << "metadata.pop:None", "metadata.current" >>
                   /\ pc' = "idle"
                   /\ result' = [Result("normalisation_data",
                                        IF IsSome(data) THEN "Some" ELSE "None", "", "", -1)
                                    EXCEPT !.data = data, !.discarded = pops]
                   /\ prev' = result
    /\ UNCHANGED << status, media, stream, cursor, sample_buffer, ended, lastPos, prevPos, seekedTo >>

\* One iteration of `loop`: continue when pop returned a revision, else read
\* the current revision and return.
normalisation_data_iterate ==
    /\ status = "ready"
    /\ pc = "drain"
    /\ LET popped == pop(metadata)
           pops == Cardinality({i \in 1..Len(trace) : trace[i] = "metadata.pop:Some"})
           data == NormalisationOf(popped.log)
       IN  /\ metadata' = popped.log
           /\ IF IsSome(popped.ret)
              THEN /\ trace' = Append(trace, "metadata.pop:Some")
                   /\ pc' = "drain"
                   /\ UNCHANGED << result, prev >>
              ELSE /\ trace' = trace \o << "metadata.pop:None", "metadata.current" >>
                   /\ pc' = "idle"
                   /\ result' = [Result("normalisation_data",
                                        IF IsSome(data) THEN "Some" ELSE "None", "", "", -1)
                                    EXCEPT !.data = data, !.discarded = pops]
                   /\ prev' = result
    /\ UNCHANGED << status, media, stream, cursor, sample_buffer, ended, lastPos, prevPos, seekedTo >>

\* ---------------------------------------------------------------- claims
\* Events of a call's trace.
PullEvents ==
    {"format.next_packet:Packet", "format.next_packet:IoError:UnexpectedEof",
     "format.next_packet:IoError:Other", "format.next_packet:DecodeError",
     "format.next_packet:ResetRequired"}

DecodeErrEvents ==
    {"decoder.decode:DecodeError", "decoder.decode:IoError", "decoder.decode:ResetRequired"}

\* new ran and got as far as comparing the codec's parameters.
ReachedFormatCheck ==
    /\ status # "unbuilt"
    /\ media.probe_ok /\ media.default_track /\ media.codec_ok
    /\ IsSome(media.sample_rate) /\ IsSome(media.channels)

\* C1: new returns Ok only if the codec's sample rate equals SAMPLE_RATE and
\* its channel count equals NUM_CHANNELS; a differing sample rate fails with
\* "Unsupported sample rate: N", a differing channel count (the rate being
\* right, which is compared first) with "Unsupported number of channels",
\* and a failed construction leaves no adapter: nothing was ever called on it.
C1_ConstructionValidatesFormat ==
    /\ status \in {"ready", "panicked"} =>
         /\ media.sample_rate = Some(SAMPLE_RATE)
         /\ media.channels = Some(NUM_CHANNELS)
    /\ (ReachedFormatCheck /\ Unwrap(media.sample_rate) # SAMPLE_RATE) =>
         /\ status = "failed"
         /\ result.kind = "Err" /\ result.err = "Unsupported sample rate"
         /\ result.arg = Unwrap(media.sample_rate)
    /\ (ReachedFormatCheck /\ Unwrap(media.sample_rate) = SAMPLE_RATE
          /\ Unwrap(media.channels) # NUM_CHANNELS) =>
         /\ status = "failed"
         /\ result.kind = "Err" /\ result.err = "Unsupported number of channels"
    /\ status = "failed" =>
         /\ result.op = "new" /\ result.kind = "Err"
         /\ sample_buffer = None /\ trace = << >> /\ cursor = 1

\* C1 witness: a construction that was accepted.
C1_Witness ==
    status = "ready" /\ result.op = "new" /\ result.kind = "Ok"

\* What the caller must get for the last collaborator call of a completed
\* next_packet.
MatchesLastEvent(r, e) ==
    CASE e = "format.next_packet:IoError:UnexpectedEof" -> r.kind = "None"
      [] e = "format.next_packet:IoError:Other" ->
           r.kind = "Err" /\ r.err = "IoError:Other" /\ r.origin = "format"
      [] e = "format.next_packet:DecodeError" ->
           r.kind = "Err" /\ r.err = "DecodeError" /\ r.origin = "format"
      [] e = "decoder.decode:Ok" -> r.kind \in {"Some", "Panic"}
      [] e \in DecodeErrEvents ->
           r.kind = "Err" /\ r.origin = "decoder" /\ ("decoder.decode:" \o r.err) = e
      [] OTHER -> FALSE

\* C2: a demuxer reset-required is followed, within the same call, by
\* decoder.reset() and then by another pull from the demuxer; the caller gets
\* the result of the last pull (and its decode), never the demuxer's
\* reset-required.
C2_DemuxResetRetried ==
    /\ \A i \in 1..Len(trace) :
         trace[i] = "format.next_packet:ResetRequired" =>
           /\ i < Len(trace) /\ trace[i + 1] = "decoder.reset"
           /\ IF i + 1 = Len(trace)
              THEN pc = "retry"
              ELSE trace[i + 2] \in PullEvents
    /\ (result.op = "next_packet" /\ pc = "idle") =>
         /\ Len(trace) > 0
         /\ MatchesLastEvent(result, trace[Len(trace)])
         /\ ~(result.kind = "Err" /\ result.err = "ResetRequired" /\ result.origin = "format")

\* C2 witness: a call that met a demuxer reset-required and returned the
\* samples of the packet pulled by the retry.
C2_Witness ==
    /\ pc = "idle" /\ result.op = "next_packet" /\ result.kind = "Some"
    /\ \E i \in 1..Len(trace) : trace[i] = "format.next_packet:ResetRequired"

\* C3: a decode error, reset-required included, ends the call: it is the last
\* thing the call did (no decoder.reset(), no further pull) and it is what
\* the caller gets.
C3_DecodeErrorPropagated ==
    \A i \in 1..Len(trace) :
      trace[i] \in DecodeErrEvents =>
        /\ i = Len(trace)
        /\ pc = "idle"
        /\ result.op = "next_packet" /\ result.kind = "Err" /\ result.origin = "decoder"
        /\ ("decoder.decode:" \o result.err) = trace[i]
        /\ i > 1 /\ trace[i - 1] = "format.next_packet:Packet"

\* C3 witness: the decoder itself raised reset-required.
C3_Witness ==
    /\ pc = "idle" /\ result.op = "next_packet"
    /\ result.err = "ResetRequired" /\ result.origin = "decoder"
    /\ trace[Len(trace)] = "decoder.decode:ResetRequired"

\* C4: seek resets the decoder exactly once, after the demuxer's seek, if and
\* only if that seek succeeded; when it failed, seek returns the demuxer's
\* error and the decoder is not reset.
C4_SeekResetsIffSeeked ==
    (result.op = "seek" /\ pc = "idle") =>
      /\ Len(trace) > 0 /\ trace[1] \in {"format.seek:Ok", "format.seek:Err"}
      /\ (trace[1] = "format.seek:Ok") <=> (result.kind = "Ok")
      /\ (trace[1] = "format.seek:Ok") <=>
           (Cardinality({i \in 1..Len(trace) : trace[i] = "decoder.reset"}) = 1)
      /\ (trace[1] = "format.seek:Err") <=>
           (Cardinality({i \in 1..Len(trace) : trace[i] = "decoder.reset"}) = 0)
      /\ (trace[1] = "format.seek:Err") =>
           result.kind = "Err" /\ result.err = "SeekError" /\ result.origin = "format"
      /\ \A i \in 1..Len(trace) : trace[i] = "decoder.reset" => i = 2

\* C4 witness: a seek that succeeded.
C4_Witness ==
    pc = "idle" /\ result.op = "seek" /\ result.kind = "Ok" /\ trace = << "format.seek:Ok", "decoder.reset" >>

\* C5: the sample buffer is absent after construction and until the first
\* successful decode, which sets it with that frame's capacity and spec;
\* once set, no step replaces or clears it.
C5_SampleBufferWriteOnce ==
    [][ /\ (status = "unbuilt" /\ status' = "ready") => IsNone(sample_buffer')
        /\ IsSome(sample_buffer) => sample_buffer' = sample_buffer
        /\ (IsNone(sample_buffer) /\ IsSome(sample_buffer')) =>
             /\ pc' = "idle" /\ result'.op = "next_packet"
             /\ Len(trace') > 0 /\ trace'[Len(trace')] = "decoder.decode:Ok"
             /\ Unwrap(sample_buffer') =
                  [capacity |-> Capacity,
                   spec |-> [rate |-> Unwrap(media.sample_rate),
                             channels |-> Unwrap(media.channels)]]
        /\ (IsNone(sample_buffer') /\ pc' = "idle" /\ result'.op = "next_packet") =>
             trace'[Len(trace')] # "decoder.decode:Ok"
      ]_vars

\* C5 witness: the buffer set by a decode is still there after a seek that
\* succeeded.
C5_Witness ==
    /\ IsSome(sample_buffer)
    /\ pc = "idle" /\ result.op = "seek" /\ result.kind = "Ok"

\* C6: when the demuxer's pull fails with the unexpected-EOF I/O error, the
\* call returns Ok(None) having done nothing else: no decode, no
\* decoder.reset() after the pull, the sample buffer as it was.
C6_EofIsCleanEnd ==
    [][ (Len(trace') > 0
           /\ trace'[Len(trace')] = "format.next_packet:IoError:UnexpectedEof") =>
          /\ pc' = "idle"
          /\ result'.op = "next_packet" /\ result'.kind = "None"
          /\ trace' = Append(IF pc = "idle" THEN << >> ELSE trace,
                             "format.next_packet:IoError:UnexpectedEof")
          /\ \A i \in 1..Len(trace') :
               trace'[i] \notin (DecodeErrEvents \cup {"decoder.decode:Ok"})
          /\ sample_buffer' = sample_buffer
          /\ status' = status
      ]_vars

\* C6 witness: Ok(None) at the end of a stream some of whose packets were
\* decoded.
C6_Witness ==
    /\ pc = "idle" /\ result.op = "next_packet" /\ result.kind = "None"
    /\ trace = << "format.next_packet:IoError:UnexpectedEof" >>
    /\ IsSome(sample_buffer)

C8_PositionNonDecreasing ==
    prevPos >= 0 => prevPos <= lastPos

\* C8 witness: two successive Some results, the later one saturated at the
\* largest u32.
C8_Witness ==
    /\ prevPos >= 0 /\ prevPos < lastPos /\ lastPos = U32_MAX
    /\ pc = "idle" /\ result.op = "next_packet" /\ result.kind = "Some"

\* One packet's duration in milliseconds.
PacketMs(i) == ts_to_ms(stream[i].dur)

\* C9: the first Some after a successful seek has position_ms no less than
\* what the seek returned, less at most one packet's duration.
C9_FirstPacketAfterSeek ==
    (seekedTo >= 0 /\ prevPos = -1 /\ lastPos >= 0
       /\ pc = "idle" /\ result.op = "next_packet" /\ result.kind = "Some") =>
      result.position_ms + PacketMs(result.packet) >= seekedTo

\* C9 witness: the first Some after a seek that landed past the first packet.
C9_Witness ==
    /\ seekedTo > 0 /\ prevPos = -1 /\ lastPos >= seekedTo
    /\ pc = "idle" /\ result.op = "next_packet" /\ result.kind = "Some"

\* C10: the pcm of every Some holds frames x NUM_CHANNELS samples.
C10_PcmLengthMultipleOfChannels ==
    (result.op = "next_packet" /\ result.kind = "Some") =>
      /\ result.pcm_len % NUM_CHANNELS = 0
      /\ result.pcm_len = result.frames * NUM_CHANNELS

\* C10 witness: a Some returned after a seek and earlier packets.
C10_Witness ==
    /\ result.op = "next_packet" /\ result.kind = "Some" /\ pc = "idle"
    /\ result.frames = 1 /\ result.pcm_len = NUM_CHANNELS
    /\ result.packet > 1

\* The value a field of NormalisationData must have for a revision's tags:
\* that of the last tag with the field's key and a floating-point value, or 0.
FieldOf(tags, key) ==
    LET at == {i \in 1..Len(tags) :
                 tags[i].std_key = Some(key) /\ tags[i].value.type = "Float"}
    IN  IF at = {} THEN 0
        ELSE tags[CHOOSE i \in at : \A j \in at : j <= i].value.v

\* C11: normalisation_data leaves no revision newer than the current one and
\* returns None when the log is empty or the current revision has no tags;
\* otherwise Some data whose four fields hold the floating-point value tagged
\* with their ReplayGain key, and zero where no such tag exists (so a
\* revision of other tags only gives all zeros, not None).
C11_NormalisationFromCurrentTags ==
    (pc = "idle" /\ result.op = "normalisation_data") =>
      /\ Len(metadata) <= 1
      /\ IF metadata = << >> \/ metadata[1] = << >>
         THEN result.kind = "None" /\ result.data = None
         ELSE /\ result.kind = "Some"
              /\ result.data =
                   Some([album_gain_db |-> FieldOf(metadata[1], "ReplayGainAlbumGain"),
                         album_peak |-> FieldOf(metadata[1], "ReplayGainAlbumPeak"),
                         track_gain_db |-> FieldOf(metadata[1], "ReplayGainTrackGain"),
                         track_peak |-> FieldOf(metadata[1], "ReplayGainTrackPeak")])

\* C11 witness: older revisions were discarded and the current one, whose
\* tags are a string under a ReplayGain key and a float under another key,
\* gave all zeros.
C11_Witness ==
    /\ pc = "idle" /\ result.op = "normalisation_data" /\ result.discarded > 0
    /\ metadata = << << Tag(Some("ReplayGainAlbumGain"), String(5)),
                        Tag(Some("TrackTitle"), Float(3)) >> >>
    /\ result.data = Some(DefaultNormalisationData)

\* C12: a normalisation_data call that follows another one, nothing having
\* added a revision between them, returns what the first returned, although
\* the first call discarded the older revisions.
C12_NormalisationIdempotent ==
    (pc = "idle" /\ result.op = "normalisation_data" /\ prev.op = "normalisation_data") =>
      /\ result.kind = prev.kind
      /\ result.data = prev.data

\* C12 witness: the first call discarded two revisions, the second none, and
\* both returned the same gains.
C12_Witness ==
    /\ pc = "idle" /\ result.op = "normalisation_data" /\ prev.op = "normalisation_data"
    /\ prev.discarded > 1 /\ result.discarded = 0
    /\ IsSome(result.data) /\ result.data # Some(DefaultNormalisationData)
    /\ result.data = prev.data

\* C18: the loop of normalisation_data comes to its end for every metadata
\* log, the empty one included: an iteration that goes round again has
\* discarded one revision, so the log is shorter, and the call returns once
\* pop yields nothing.
C18_DrainTerminates ==
    /\ [][ (pc = "drain" /\ pc' = "drain") => Len(metadata') = Len(metadata) - 1 ]_vars
    /\ [][ (pc = "drain" /\ pc' = "idle") =>
             /\ metadata' = metadata /\ Len(metadata) <= 1
             /\ result'.op = "normalisation_data" ]_vars
    /\ (pc = "drain") ~> (pc = "idle")

\* C18 witness: a call on the empty log has returned after one pop.
C18_Witness ==
    /\ pc = "idle" /\ result.op = "normalisation_data" /\ result.kind = "None"
    /\ metadata = << >>
    /\ trace = << "format.metadata", "metadata.pop:None", "metadata.current" >>

\* The milliseconds of a timestamp as the whole part of
\* seconds x 1000 + frac x 1000, seconds and frac being the whole and the
\* fractional part of ts x numer / denom; of ts x PAGES_PER_MS with no time base.
WholeMs(time_base, ts) ==
    IF IsSome(time_base)
    THEN LET tb == Unwrap(time_base)
             seconds == (ts * tb.numer) \div tb.denom
             rest == (ts * tb.numer) % tb.denom
         IN  seconds * 1000 + (rest * 1000) \div tb.denom
    ELSE ts * (PAGES_PER_MS.numer \div PAGES_PER_MS.denom)
           + (ts * (PAGES_PER_MS.numer % PAGES_PER_MS.denom)) \div PAGES_PER_MS.denom

\* C13: ts_to_ms returns the whole milliseconds of the timestamp under the
\* time base (of ts x PAGES_PER_MS without one), and u32::MAX when they exceed
\* it: 1000 for ts = 48000 at 1/48000, 0 for ts = 0, u32::MAX for the largest
\* timestamps.
C13_TsToMs ==
    result.op = "ts_to_ms" =>
      /\ result.kind = "Ok"
      /\ result.position_ms =
           IF WholeMs(media.time_base, result.arg) > U32_MAX
           THEN U32_MAX ELSE WholeMs(media.time_base, result.arg)
      /\ (media.time_base = Some([numer |-> 1, denom |-> 48000]) /\ result.arg = 48000) =>
           result.position_ms = 1000
      /\ result.arg = 0 => result.position_ms = 0
      /\ result.arg = TS_MAX(media.time_base) => result.position_ms = U32_MAX

\* C20: under one time base (or none), of two timestamps the later one never
\* converts to fewer milliseconds, the saturated results included.
C20_TsToMsMonotone ==
    (result.op = "ts_to_ms" /\ prev.op = "ts_to_ms") =>
      /\ prev.arg <= result.arg => prev.position_ms <= result.position_ms
      /\ result.arg <= prev.arg => result.position_ms <= prev.position_ms

\* C20 witness: without a time base, the last timestamp below saturation
\* followed by the largest one.
C20_Witness ==
    /\ result.op = "ts_to_ms" /\ prev.op = "ts_to_ms" /\ media.time_base = None
    /\ prev.arg < result.arg /\ result.arg = TS_MAX(media.time_base)
    /\ prev.position_ms < U32_MAX /\ prev.position_ms > 0
    /\ result.position_ms = U32_MAX

\* C14: a seek to 0 that the demuxer carries out returns 0 and leaves the
\* first packet to be read: the next_packet call that follows pulls packet 1
\* and, when its decode succeeds, returns it at position 0.  (Checked for
\* every seek to 0, the one on a fresh adapter among them.)
C14_SeekZeroKeepsFirstPacket ==
    [][ /\ (pc' = "idle" /\ result'.op = "seek" /\ result'.kind = "Ok" /\ result'.arg = 0) =>
             /\ result'.position_ms = 0
             /\ cursor' = 1
        /\ (result.op = "seek" /\ result.kind = "Ok" /\ result.arg = 0
               /\ pc' = "idle" /\ result'.op = "next_packet") =>
             /\ result'.kind # "None"
             /\ (\E i \in 1..Len(trace') : trace'[i] = "format.next_packet:Packet") =>
                  cursor' = 2
             /\ result'.kind = "Some" =>
                  /\ result'.packet = 1
                  /\ result'.position_ms = 0
      ]_vars

\* C14 witness: the first call on a new adapter was seek(0), and the
\* next_packet after it returned packet 1 at position 0, setting the sample
\* buffer.
C14_Witness ==
    /\ pc = "idle" /\ result.op = "next_packet" /\ result.kind = "Some"
    /\ result.packet = 1 /\ result.position_ms = 0 /\ cursor = 2
    /\ seekedTo = 0 /\ lastPos = 0 /\ prevPos = -1
    /\ trace = << "format.next_packet:Packet", "decoder.decode:Ok" >>

\* C15: a next_packet call returns.  It calls itself again only after a
\* demuxer reset-required, so its activations are at most one more than the
\* reset-required signals the demuxer gives in a row (MaxRetries), and a call
\* that has recursed comes back.
C15_NextPacketReturns ==
    /\ [](pc = "retry" =>
            /\ Len(trace) = 2 * Retries(trace)
            /\ Retries(trace) \in 1..MaxRetries)
    /\ [][ pc' = "retry" =>
             trace' = (IF pc = "idle" THEN << >> ELSE trace)
                        \o << "format.next_packet:ResetRequired", "decoder.reset" >> ]_vars
    /\ (pc = "retry") ~> (pc = "idle" /\ result.op = "next_packet")

\* C15 witness: a call returned after as many retries as the demuxer gave
\* reset-required signals in a row.
C15_Witness ==
    /\ pc = "idle" /\ result.op = "next_packet"
    /\ Retries(trace) = MaxRetries
    /\ Len(trace) > 2 * MaxRetries

\* Demuxer errors that are neither the unexpected-EOF I/O error nor
\* reset-required.
OtherDemuxErrEvents ==
    {"format.next_packet:IoError:Other", "format.next_packet:DecodeError"}

\* C16: a demuxer error other than unexpected-EOF and reset-required ends
\* the call at once with that error: the failed pull is the last thing the
\* call does (no further pull, no decode, no decoder.reset() after it), and
\* the adapter's state is as it was.
C16_DemuxErrorPropagated ==
    [][ (Len(trace') > 0 /\ trace'[Len(trace')] \in OtherDemuxErrEvents) =>
          /\ pc' = "idle"
          /\ result'.op = "next_packet" /\ result'.kind = "Err"
          /\ result'.origin = "format"
          /\ ("format.next_packet:" \o result'.err) = trace'[Len(trace')]
          /\ trace' = Append(IF pc = "idle" THEN << >> ELSE trace, trace'[Len(trace')])
          /\ \A i \in 1..Len(trace') :
               /\ trace'[i] \notin (DecodeErrEvents \cup {"decoder.decode:Ok"})
               /\ trace'[i] \in OtherDemuxErrEvents => i = Len(trace')
               /\ trace'[i] = "decoder.reset" =>
                    i > 1 /\ trace'[i - 1] = "format.next_packet:ResetRequired"
          /\ UNCHANGED << status, cursor, sample_buffer, metadata >>
      ]_vars

\* C16 witness: after packets were decoded, a call met reset-required and
\* then a failing pull, whose I/O error it returned.
C16_Witness ==
    /\ pc = "idle" /\ result.op = "next_packet" /\ result.kind = "Err"
    /\ result.err = "IoError:Other" /\ result.origin = "format"
    /\ trace = << "format.next_packet:ResetRequired", "decoder.reset",
                  "format.next_packet:IoError:Other" >>
    /\ IsSome(sample_buffer) /\ cursor > 1

\* C19: an activation of next_packet that pulls a packet gives it to
\* decoder.decode at once and exactly once, and nothing is decoded that was
\* not just pulled; a call decodes at most once; the pulled packet is gone
\* from the demuxer whether its decode succeeded or failed, so the next pull
\* is the packet after it.
C19_PulledPacketDecodedOnce ==
    /\ [](\A i \in 1..Len(trace) :
            /\ trace[i] = "format.next_packet:Packet" =>
                 /\ i + 1 = Len(trace)
                 /\ trace[i + 1] \in (DecodeErrEvents \cup {"decoder.decode:Ok"})
                 /\ pc = "idle" /\ result.op = "next_packet"
                 /\ result.kind \in {"Some", "Err", "Panic"}
            /\ trace[i] \in (DecodeErrEvents \cup {"decoder.decode:Ok"}) =>
                 /\ i = Len(trace)
                 /\ i > 1 /\ trace[i - 1] = "format.next_packet:Packet")
    /\ [][ (Len(trace') > 0 /\ trace'[1] \in PullEvents) =>
             IF trace'[Len(trace')] \in (DecodeErrEvents \cup {"decoder.decode:Ok"})
             THEN /\ cursor' = cursor + 1
                  /\ result'.kind = "Some" => result'.packet = cursor
             ELSE cursor' = cursor
         ]_vars

\* C19 witness: the second packet's decode failed; the packet is consumed
\* and the call made that one decode.
C19_Witness ==
    /\ pc = "idle" /\ result.op = "next_packet" /\ result.kind = "Err"
    /\ result.err = "DecodeError" /\ result.origin = "decoder"
    /\ trace = << "format.next_packet:Packet", "decoder.decode:DecodeError" >>
    /\ cursor = 3 /\ lastPos = 0

\* C17: the frame of every Some result has the spec of the sample buffer,
\* which is that of the first frame decoded: a frame of another spec never
\* comes back as a successful result, its samples laid out otherwise than the
\* buffer's spec says.
C17_FrameSpecMatchesBuffer ==
    (result.op = "next_packet" /\ result.kind = "Some") =>
      /\ IsSome(sample_buffer)
      /\ result.spec = Unwrap(sample_buffer).spec
      /\ result.pcm_len = result.frames * Unwrap(sample_buffer).spec.channels

Next ==
    \/ new
    \/ next_packet
    \/ \E position_ms \in SeekTargets : seek(position_ms)
    \/ normalisation_data

Spec == Init /\ [][Next]_vars

\* normalisation_data alone, applied to the logs a container may present,
\* one loop iteration at a time; the call runs on once it has begun.
InitMeta == Start("ready", AcceptedInputs, {CHOOSE s \in Streams : TRUE}, TaggedLogs)

NextMeta ==
    \/ normalisation_data_begin
    \/ normalisation_data_iterate

\* ts_to_ms alone, applied under each time base to one timestamp after another.
ClockInputs == {[m EXCEPT !.time_base = time_base] : m \in AcceptedInputs, time_base \in ClockTimeBases}

InitClock == Start("ready", ClockInputs, {CHOOSE s \in Streams : TRUE}, {<< >>})

NextClock == ts_to_ms_call

SpecClock == InitClock /\ [][NextClock]_vars

\* next_packet alone, called again and again on a new adapter.  A call in
\* progress runs on: once next_packet has called itself, that activation is
\* the running thread's next step.
\* The metadata log holds all the revisions of the container from
\* the start, so that pulling packets adds none.
InitCall == Start("ready", AcceptedInputs, Streams, {[i \in 1..MaxRevisions |-> << >>]})

NextCall == next_packet

SpecCall == InitCall /\ [][NextCall]_vars /\ WF_vars(next_packet)

\* next_packet called again and again on an adapter whose decoder does not
\* conform: the spec and the capacity of its frames may change from one
\* packet to the next.
NonConformingInputs == {[m EXCEPT !.conforms = FALSE] : m \in AcceptedInputs}

InitFrames == Start("ready", NonConformingInputs, Streams, {[i \in 1..MaxRevisions |-> << >>]})

NextFrames == next_packet

SpecFrames == InitFrames /\ [][NextFrames]_vars

SpecMeta == InitMeta /\ [][NextMeta]_vars /\ WF_vars(normalisation_data_iterate)
====
